---------------------------- MODULE Spec2Model ----------------------------
(***************************************************************************)
(* A model of src/src/lib/utils.ts of infinitunes: the string helpers      *)
(* (clearUrl, isJioSaavnLink, formatTime), the artist resolvers            *)
(* (getArtists, getArtistIds), the home-data cache accessor (getHomeData)  *)
(* and the download resolver (downloadSong).                               *)
(*                                                                         *)
(* A JavaScript string is a sequence of one-character strings, so that     *)
(* split, join, replace and the regular expressions are computed           *)
(* character by character, as the engine computes them.                    *)
(***************************************************************************)
EXTENDS Integers, Sequences, FiniteSets, TLC

VARIABLES
    time, formatted,                 \* formatTime: its argument, its result
    url, cleared,                    \* clearUrl: its argument, its result
    link, isLink,                    \* isJioSaavnLink: its argument, its result
    item, artistNames, artistIds,    \* getArtists / getArtistIds
    homeData, call, fetches, dispatched,   \* getHomeData and the store
    song, quality, dl                \* downloadSong

vars == <<time, formatted, url, cleared, link, isLink, item, artistNames,
          artistIds, homeData, call, fetches, dispatched, song,
          quality, dl>>

timeVars == <<time, formatted>>
slugVars == <<url, cleared>>
linkVars == <<link, isLink>>
artistVars == <<item, artistNames, artistIds>>
homeVars == <<homeData, call, fetches, dispatched>>
dlVars == <<song, quality, dl>>

-----------------------------------------------------------------------------
(* Bounds of the model.                                                    *)

\* formatTime is applied to every integer 0..MaxTime (3661 is the largest
\* example of the specification).
MaxTime == 3700

\* clearUrl is applied to every string of at most MaxLen characters of
\* SlugAlphabet, and to words separated by 1..MaxSpaces spaces.
MaxLen == 4

MaxSpaces == 5

\* Each artist field holds at most MaxArtists entries.
MaxArtists == 2

\* The number of getHomeData calls of one run.
MaxCalls == 3

-----------------------------------------------------------------------------
(* JavaScript strings.                                                     *)

\* s has pat at position i (1-based).
HasAt(s, pat, i) ==
    /\ i >= 1
    /\ i + Len(pat) - 1 <= Len(s)
    /\ \A k \in 1..Len(pat) : s[i + k - 1] = pat[k]

\* String.prototype.indexOf(pat, from): the first position >= from where pat
\* occurs, 0 when there is none (JavaScript's -1).
IndexOf(s, pat, from) ==
    LET hits == {i \in from..Len(s) : HasAt(s, pat, i)}
    IN  IF hits = {} THEN 0 ELSE CHOOSE i \in hits : \A j \in hits : i <= j

\* String.prototype.replace(pat, rep) with a string pattern: the first
\* occurrence only.
Replace(s, pat, rep) ==
    LET i == IndexOf(s, pat, 1)
    IN  IF i = 0 THEN s
        ELSE SubSeq(s, 1, i - 1) \o rep \o SubSeq(s, i + Len(pat), Len(s))

\* String.prototype.replaceAll(pat, rep): one left-to-right pass over the
\* non-overlapping occurrences; the replacement text is not scanned again.
RECURSIVE ReplaceAll(_, _, _)
ReplaceAll(s, pat, rep) ==
    LET i == IndexOf(s, pat, 1)
    IN  IF i = 0 THEN s
        ELSE SubSeq(s, 1, i - 1) \o rep
                \o ReplaceAll(SubSeq(s, i + Len(pat), Len(s)), pat, rep)

\* String.prototype.split(sep) with a non-empty separator: "" gives [""].
RECURSIVE Split(_, _)
Split(s, sep) ==
    LET i == IndexOf(s, sep, 1)
    IN  IF i = 0 THEN <<s>>
        ELSE <<SubSeq(s, 1, i - 1)>> \o Split(SubSeq(s, i + Len(sep), Len(s)), sep)

\* Array.prototype.join(sep).
RECURSIVE Join(_, _)
Join(list, sep) ==
    IF list = <<>> THEN <<>>
    ELSE IF Len(list) = 1 THEN list[1]
    ELSE list[1] \o sep \o Join(Tail(list), sep)

UpperCase == <<"A","B","C","D","E","F","G","H","I","J","K","L","M",
               "N","O","P","Q","R","S","T","U","V","W","X","Y","Z">>

LowerCase == <<"a","b","c","d","e","f","g","h","i","j","k","l","m",
               "n","o","p","q","r","s","t","u","v","w","x","y","z">>

Digits == <<"0","1","2","3","4","5","6","7","8","9">>

Range(f) == {f[i] : i \in DOMAIN f}

\* String.prototype.toLowerCase, on the characters of the model.
LowerChar(c) ==
    IF c \in Range(UpperCase)
    THEN LowerCase[CHOOSE i \in 1..26 : UpperCase[i] = c]
    ELSE c

ToLowerCase(s) == [i \in 1..Len(s) |-> LowerChar(s[i])]

\* The regular expression classes \w and \s.
WordChars == Range(UpperCase) \cup Range(LowerCase) \cup Range(Digits) \cup {"_"}

SpaceChars == {" ", "\t", "\n"}

\* The characters "." of a regular expression does not match.
LineTerminators == {"\n", "\r"}

RECURSIVE Filter(_, _)
Filter(s, keep) ==
    IF s = <<>> THEN <<>>
    ELSE (IF s[1] \in keep THEN <<s[1]>> ELSE <<>>) \o Filter(Tail(s), keep)

\* Number.prototype.toString of a non-negative integer.
RECURSIVE NumberToString(_)
NumberToString(n) ==
    IF n < 10 THEN <<Digits[n + 1]>>
    ELSE NumberToString(n \div 10) \o <<Digits[(n % 10) + 1]>>

\* All sequences over S of length at most n.
RECURSIVE SeqsUpTo(_, _)
SeqsUpTo(S, n) ==
    IF n = 0 THEN {<<>>}
    ELSE LET shorter == SeqsUpTo(S, n - 1)
         IN  shorter \cup {Append(s, x) : s \in {t \in shorter : Len(t) = n - 1}, x \in S}

\* n copies of the character c.
Repeat(c, n) == [i \in 1..n |-> c]

-----------------------------------------------------------------------------
(* formatTime (utils.ts 69-74).                                            *)

formatTimeZeroPadsThroughTen(t) ==
    LET minutes == t \div 60
        seconds == t % 60
    IN  NumberToString(minutes) \o <<":">>
            \o (IF seconds <= 10 THEN <<"0">> \o NumberToString(seconds)
                                 ELSE NumberToString(seconds))

formatTime(t) ==
    LET minutes == t \div 60
        seconds == t % 60
    IN  NumberToString(minutes) \o <<":">>
            \o (IF seconds < 10 THEN <<"0">> \o NumberToString(seconds)
                                ELSE NumberToString(seconds))

-----------------------------------------------------------------------------
(* clearUrl (utils.ts 23-28).                                              *)

clearUrlCollapsingFully(u) ==
    LET RECURSIVE Collapse(_)
        Collapse(s) ==
            IF IndexOf(s, <<"-","-">>, 1) = 0 THEN s
            ELSE Collapse(ReplaceAll(s, <<"-","-">>, <<"-">>))
    IN  Collapse(ReplaceAll(Filter(ToLowerCase(u), WordChars \cup SpaceChars),
                            <<" ">>, <<"-">>))

clearUrl(u) ==
    ReplaceAll(
        ReplaceAll(Filter(ToLowerCase(u), WordChars \cup SpaceChars),
                   <<" ">>, <<"-">>),
        <<"-","-">>, <<"-">>)

-----------------------------------------------------------------------------
(* isJioSaavnLink (utils.ts 57-62): the regular expression                 *)
(*   /^(https?:\/\/)?(www.)?jiosaavn\.com\/(song|shows|album|artist|featured)\/(.+)$/ *)
(* run as the engine runs it: the set of positions the match can have      *)
(* reached after each piece of the pattern.                                *)

\* A literal piece: from each position of P where lit occurs, past it.
Lit(s, P, lit) == {i + Len(lit) : i \in {j \in P : HasAt(s, lit, j)}}

\* An unescaped ".": any one character but a line terminator.
AnyChar(s, P) ==
    {i + 1 : i \in {j \in P : j <= Len(s) /\ s[j] \notin LineTerminators}}

Segments ==
    { <<"s","o","n","g">>, <<"s","h","o","w","s">>, <<"a","l","b","u","m">>,
      <<"a","r","t","i","s","t">>, <<"f","e","a","t","u","r","e","d">> }

JioSaavnHost == <<"j","i","o","s","a","a","v","n",".","c","o","m">>

regexTest(s) ==
    LET start    == {1}
        http     == Lit(s, start, <<"h","t","t","p">>)
        https    == http \cup Lit(s, http, <<"s">>)
        protocol == start \cup Lit(s, https, <<":","/","/">>)
        www      == protocol \cup AnyChar(s, Lit(s, protocol, <<"w","w","w">>))
        host     == Lit(s, Lit(s, www, JioSaavnHost), <<"/">>)
        segment  == UNION {Lit(s, host, seg) : seg \in Segments}
        slash    == Lit(s, segment, <<"/">>)
    IN  \E i \in slash :
            /\ i <= Len(s)
            /\ \A k \in i..Len(s) : s[k] \notin LineTerminators

isJioSaavnLinkIgnoringCase(u) == regexTest(ToLowerCase(u))

isJioSaavnLink(u) == regexTest(u)

-----------------------------------------------------------------------------
(* The values every component starts from while another is exercised.      *)

NoItem ==
    [artists |-> [kind |-> "null"], primaryArtists |-> [kind |-> "null"],
     featuredArtists |-> [kind |-> "null"], primaryArtistsId |-> <<>>]

TimeParked == time = 0 /\ formatted = <<>>

SlugParked == url = <<>> /\ cleared = <<>>

LinkParked == link = <<>> /\ isLink = <<>>

ArtistsParked == item = NoItem /\ artistNames = <<>> /\ artistIds = <<>>

-----------------------------------------------------------------------------
(* Time formatter: formatTime applied to one argument.                     *)

FormatTime ==
    /\ formatted = <<>>
    /\ formatted' = <<formatTime(time)>>
    /\ UNCHANGED <<time, slugVars, linkVars, artistVars, homeVars, dlVars>>

-----------------------------------------------------------------------------
(* Slugs: clearUrl applied to one argument.                                *)

SlugAlphabet == {"A", "b", " ", "-", ",", "_"}

HelloWorld == <<"H","e","l","l","o",","," ","W","o","r","l","d","!">>

\* Two words with n spaces between them.
Spaced(n) == <<"A">> \o Repeat(" ", n) \o <<"B">>

SlugInputs ==
    SeqsUpTo(SlugAlphabet, MaxLen)
        \cup {Spaced(n) : n \in 1..MaxSpaces}
        \cup {HelloWorld}

ClearUrl ==
    /\ cleared = <<>>
    /\ cleared' = <<clearUrl(url)>>
    /\ UNCHANGED <<url, timeVars, linkVars, artistVars, homeVars, dlVars>>

-----------------------------------------------------------------------------
(* Links: isJioSaavnLink applied to one argument.                          *)

LinkJunk == {<<>>, <<"x">>}

LinkProtocols ==
    { <<>>, <<"h","t","t","p",":","/","/">>, <<"h","t","t","p","s",":","/","/">>,
      <<"H","T","T","P","S",":","/","/">>, <<"H","t","t","p",":","/","/">>,
      <<"f","t","p",":","/","/">> }

LinkWww ==
    { <<>>, <<"w","w","w",".">>, <<"W","W","W",".">>, <<"w","w","w","x">>,
      <<"w","w",".">>, <<"w","w","w","\n">> }

LinkHosts ==
    { JioSaavnHost, <<"J","I","O","S","A","A","V","N",".","C","O","M">>,
      <<"J","i","o","S","a","a","v","n",".","c","o","m">>,
      <<"j","i","o","s","a","a","v","n","x","c","o","m">>,
      <<"s","p","o","t","i","f","y",".","c","o","m">> }

LinkSegments ==
    Segments \cup { <<"p","l","a","y","l","i","s","t">>, <<"S","O","N","G">> }

LinkSlashes == {<<"/">>, <<>>}

LinkRests ==
    { <<>>, <<"a">>, <<"a","b","c">>, <<"x","y","z">>, <<"a","/","b">>,
      <<"a","\n","b">> }

LinkInputs ==
    { j \o p \o w \o h \o <<"/">> \o g \o sl \o r :
        j \in LinkJunk, p \in LinkProtocols, w \in LinkWww, h \in LinkHosts,
        g \in LinkSegments, sl \in LinkSlashes, r \in LinkRests }

IsJioSaavnLink ==
    /\ isLink = <<>>
    /\ isLink' = <<isJioSaavnLink(link)>>
    /\ UNCHANGED <<link, timeVars, slugVars, artistVars, homeVars, dlVars>>

-----------------------------------------------------------------------------
(* getArtists (utils.ts 122-144) and getArtistIds (utils.ts 151-162).      *)
(* An artist field is undefined ([kind |-> "null"]), a string or a list of *)
(* {name, url} entries; a possibly-undefined array is <<>> (undefined) or  *)
(* <<array>>.                                                              *)

CommaSpace == <<",", " ">>

\* getArtistsFromList of getArtists (126-132).
getArtistsFromList(artists) ==
    IF artists.kind = "string"
    THEN <<IF Len(artists.str) # 0 THEN Split(artists.str, CommaSpace) ELSE <<>>>>
    ELSE IF artists.kind = "list"
    THEN <<[i \in 1..Len(artists.list) |-> artists.list[i].name]>>
    ELSE <<>>

\* Set.prototype.add on a Set kept in insertion order.
SetAdd(set, x) == IF x \in Range(set) THEN set ELSE Append(set, x)

\* addArtistsToList (136-137): artists?.forEach(add).
RECURSIVE ForEachAdd(_, _)
ForEachAdd(set, names) ==
    IF names = <<>> THEN set
    ELSE ForEachAdd(SetAdd(set, names[1]), Tail(names))

addArtistsToList(uniqueArtists, artists) ==
    IF artists = <<>> THEN uniqueArtists ELSE ForEachAdd(uniqueArtists, artists[1])

getArtistsPrimaryFirst(it) ==
    LET s1 == addArtistsToList(<<>>, getArtistsFromList(it.primaryArtists))
        s2 == addArtistsToList(s1, getArtistsFromList(it.artists))
        s3 == addArtistsToList(s2, getArtistsFromList(it.featuredArtists))
    IN  Join(s3, CommaSpace)

getArtists(it) ==
    LET s1 == addArtistsToList(<<>>, getArtistsFromList(it.artists))
        s2 == addArtistsToList(s1, getArtistsFromList(it.primaryArtists))
        s3 == addArtistsToList(s2, getArtistsFromList(it.featuredArtists))
    IN  Join(s3, CommaSpace)

\* getArtistIdsFromList of getArtistIds (154-155), with the "?? []" of its
\* two uses.
getArtistIdsFromList(artists) ==
    IF artists.kind = "list"
    THEN [i \in 1..Len(artists.list) |-> artists.list[i].url]
    ELSE <<>>

getArtistIdsDeduplicated(it) ==
    ForEachAdd(<<>>,
        Split(it.primaryArtistsId, CommaSpace)
            \o getArtistIdsFromList(it.primaryArtists)
            \o getArtistIdsFromList(it.featuredArtists))

getArtistIds(it) ==
    Split(it.primaryArtistsId, CommaSpace)
        \o getArtistIdsFromList(it.primaryArtists)
        \o getArtistIdsFromList(it.featuredArtists)

\* The items the resolvers are applied to.
ArtistNameSet == {<<"A">>, <<"B">>}

ArtistUrl(name) == <<"/", "a", "/">> \o name

ArtistEntries == {[name |-> n, url |-> ArtistUrl(n)] : n \in ArtistNameSet}

ArtistFields ==
    {[kind |-> "null"]}
        \cup {[kind |-> "list", list |-> l] : l \in SeqsUpTo(ArtistEntries, MaxArtists)}
        \cup {[kind |-> "string", str |-> Join(l, CommaSpace)] :
                l \in SeqsUpTo(ArtistNameSet, MaxArtists)}
        \cup {[kind |-> "string", str |-> <<"A", ",", "B">>]}

ArtistIdStrings == {<<>>, <<"1", ",", " ", "2">>}

\* artists ["A","B"], primaryArtists "B, C", featuredArtists [].
ExampleItem ==
    [artists |-> [kind |-> "list",
                  list |-> <<[name |-> <<"A">>, url |-> ArtistUrl(<<"A">>)],
                             [name |-> <<"B">>, url |-> ArtistUrl(<<"B">>)]>>],
     primaryArtists |-> [kind |-> "string", str |-> <<"B", ",", " ", "C">>],
     featuredArtists |-> [kind |-> "list", list |-> <<>>],
     primaryArtistsId |-> <<"2", ",", " ", "3">>]

Items ==
    [artists : ArtistFields, primaryArtists : ArtistFields,
     featuredArtists : ArtistFields, primaryArtistsId : ArtistIdStrings]
        \cup {ExampleItem}

GetArtists ==
    /\ artistNames = <<>>
    /\ artistNames' = <<getArtists(item)>>
    /\ UNCHANGED <<item, artistIds, timeVars, slugVars, linkVars, homeVars, dlVars>>

GetArtistIds ==
    /\ artistIds = <<>>
    /\ artistIds' = <<getArtistIds(item)>>
    /\ UNCHANGED <<item, artistNames, timeVars, slugVars, linkVars, homeVars, dlVars>>

-----------------------------------------------------------------------------
(* getHomeData (utils.ts 80-95) and the store's root slice.                *)
(*                                                                         *)
(* homeData is store.getState().root.homeData: <<>> while it is undefined, *)
(* <<payload>> once set.  Calls are numbered in the order they are made.   *)
(* call[c].pc is where call c stands: "idle" (not made yet), "awaiting"    *)
(* (suspended at the await of line 83), "returned" or "rejected" (its      *)
(* promise settled).  call[c].api is the promise of api.getHomeData().     *)

CallIds == 1..MaxCalls

Payload1 ==
    [trending |-> [albums |-> <<"ta1">>, songs |-> <<"ts1", "ts2">>],
     albums |-> <<"al1">>, playlists |-> <<"pl1">>, charts |-> <<"ch1">>]

Payload2 ==
    [trending |-> [albums |-> <<"ta2", "ta3">>, songs |-> <<"ts3">>],
     albums |-> <<>>, playlists |-> <<"pl2", "pl3">>, charts |-> <<"ch2">>]

Payloads == {Payload1, Payload2}

\* What api.getHomeData() can resolve with: a payload, or nothing.
ApiValues == {<<>>} \cup {<<p>> : p \in Payloads}

IdleCall ==
    [pc |-> "idle", rootSlice |-> <<>>, api |-> "none", value |-> <<>>,
     result |-> <<>>, inFlight |-> {}]

\* The root slice before any setHomeData: homeData is undefined.
initialHomeData == <<>>

HomeParked ==
    /\ homeData = initialHomeData
    /\ call = [c \in CallIds |-> IdleCall]
    /\ fetches = 0
    /\ dispatched = <<>>

\* The setHomeData reducer of the root slice: homeData becomes the payload.
setHomeData(payload) == <<payload>>

\* Line 83: rootSlice.homeData ?? (await api.getHomeData()).
CacheMissAlways(rootSlice) == TRUE

CacheMiss(rootSlice) == rootSlice = <<>>

\* Line 85: homeData && (rootSlice.homeData ?? store.dispatch(...)), where
\* rootSlice is the state object read at line 81.
ShouldDispatchOnFreshRead(rootSlice, data) == data # <<>> /\ homeData = <<>>

ShouldDispatch(rootSlice, data) == data # <<>> /\ rootSlice = <<>>

\* Lines 87-94: the value returned for homeData.
Reshape(data) ==
    IF data = <<>> THEN <<>>
    ELSE <<[trending |-> data[1].trending.albums \o data[1].trending.songs,
            albums |-> data[1].albums,
            playlists |-> data[1].playlists,
            charts |-> data[1].charts]>>

\* Lines 85-94, run with homeData bound to data: the dispatch, the return.
Finish(c, rootSlice, data) ==
    /\ homeData' = IF ShouldDispatch(rootSlice, data)
                   THEN setHomeData(data[1]) ELSE homeData
    /\ dispatched' = IF ShouldDispatch(rootSlice, data)
                     THEN Append(dispatched, [by |-> c, payload |-> data[1]])
                     ELSE dispatched

\* A call of getHomeData: lines 81-83, and the rest of the body when the
\* cache holds a value (no await is executed then).
GetHomeData(c) ==
    /\ call[c].pc = "idle"
    /\ \A b \in CallIds : b < c => call[b].pc # "idle"
    /\ LET rootSlice == homeData
           inFlight  == {b \in CallIds : call[b].pc = "awaiting"}
       IN  IF CacheMiss(rootSlice)
           THEN /\ call' = [call EXCEPT ![c] =
                      [@ EXCEPT !.pc = "awaiting", !.rootSlice = rootSlice,
                                !.api = "pending", !.inFlight = inFlight]]
                /\ fetches' = fetches + 1
                /\ UNCHANGED <<homeData, dispatched>>
           ELSE /\ call' = [call EXCEPT ![c] =
                      [@ EXCEPT !.pc = "returned", !.rootSlice = rootSlice,
                                !.inFlight = inFlight,
                                !.result = Reshape(rootSlice)]]
                /\ Finish(c, rootSlice, rootSlice)
                /\ UNCHANGED fetches
    /\ UNCHANGED <<timeVars, slugVars, linkVars, artistVars, dlVars>>

\* api.getHomeData() resolves with v.
ApiFulfil(c, v) ==
    /\ call[c].pc = "awaiting"
    /\ call[c].api = "pending"
    /\ call' = [call EXCEPT ![c] = [@ EXCEPT !.api = "fulfilled", !.value = v]]
    /\ UNCHANGED <<homeData, fetches, dispatched>>
    /\ UNCHANGED <<timeVars, slugVars, linkVars, artistVars, dlVars>>

\* api.getHomeData() fails.
ApiReject(c) ==
    /\ call[c].pc = "awaiting"
    /\ call[c].api = "pending"
    /\ call' = [call EXCEPT ![c] = [@ EXCEPT !.api = "rejected"]]
    /\ UNCHANGED <<homeData, fetches, dispatched>>
    /\ UNCHANGED <<timeVars, slugVars, linkVars, artistVars, dlVars>>

\* The continuation of the await of line 83, catching the failure and going
\* on with no data.
ResumeCatching(c) ==
    /\ call[c].pc = "awaiting"
    /\ call[c].api \in {"fulfilled", "rejected"}
    /\ call' = [call EXCEPT ![c] =
                  [@ EXCEPT !.pc = "returned", !.result = Reshape(call[c].value)]]
    /\ Finish(c, call[c].rootSlice, call[c].value)
    /\ UNCHANGED fetches
    /\ UNCHANGED <<timeVars, slugVars, linkVars, artistVars, dlVars>>

\* The continuation of the await of line 83: the await throws when the
\* promise was rejected (nothing catches it: the call's promise rejects),
\* else lines 85-94 run with the value.
Resume(c) ==
    /\ call[c].pc = "awaiting"
    /\ call[c].api \in {"fulfilled", "rejected"}
    /\ IF call[c].api = "rejected"
       THEN /\ call' = [call EXCEPT ![c] = [@ EXCEPT !.pc = "rejected"]]
            /\ UNCHANGED <<homeData, dispatched>>
       ELSE /\ call' = [call EXCEPT ![c] =
                      [@ EXCEPT !.pc = "returned", !.result = Reshape(call[c].value)]]
            /\ Finish(c, call[c].rootSlice, call[c].value)
    /\ UNCHANGED fetches
    /\ UNCHANGED <<timeVars, slugVars, linkVars, artistVars, dlVars>>

-----------------------------------------------------------------------------
(* downloadSong (utils.ts 194-219), decodeHtml (169-178), SongQuality      *)
(* (180-187).                                                              *)
(*                                                                         *)
(* song.downloadUrl is <<>> when the song has no download links, else      *)
(* <<link>>, the link of its first entry.  dl is the call: dl.pc the       *)
(* statement it stands at, dl.settled its promise, dl.objectUrl and        *)
(* dl.anchor the temporary objects of the save, dl.events what it did.     *)

SongQuality ==
    { <<"_","1","2">>, <<"_","4","8">>, <<"_","9","6">>,
      <<"_","1","6","0">>, <<"_","3","2","0">> }

LowSuffix == <<"_","1","2",".","m","p","4">>

Mp4 == <<".","m","p","4">>

\* decodeHtml: the text content of the string parsed as HTML, on the
\* entity the song names of the model use.
decodeHtml(str) == ReplaceAll(str, <<"&","a","m","p",";">>, <<"&">>)

\* Lines 195-198.
downloadLink(s, q) == Replace(s.downloadUrl[1], LowSuffix, q \o Mp4)

\* Line 208.
downloadName(s) == decodeHtml(s.name) \o <<" ">> \o s.year \o <<".","m","p","3">>

SongLinks ==
    { <<>>,
      << <<"u","/","x","_","1","2",".","m","p","4">> >>,
      << <<"u","/","x","_","9","6",".","m","p","4">> >>,
      << <<"_","1","2",".","m","p","4","/","x","_","1","2",".","m","p","4">> >> }

SongNames == { <<"H","i">>, <<"A","&","a","m","p",";","B">> }

SongYears == { <<"2","0","2","0">>, <<"1","9","9","9">> }

Songs == [downloadUrl : SongLinks, name : SongNames, year : SongYears]

DlStart ==
    [pc |-> "link", settled |-> "pending", link |-> <<>>, fetched |-> <<>>,
     fetchOk |-> FALSE, objectUrl |-> "none", anchor |-> "none",
     saved |-> <<>>, logged |-> FALSE, events |-> <<>>]

DownloadParked ==
    /\ song = [downloadUrl |-> <<>>, name |-> <<>>, year |-> <<>>]
    /\ quality = <<"_","1","2">>
    /\ dl = DlStart

Others == <<timeVars, slugVars, linkVars, artistVars, homeVars>>

\* Lines 195-198, before the try: song.downloadUrl[0].link throws a
\* TypeError when there is no first entry, and the call's promise rejects.
BuildLink ==
    /\ dl.pc = "link"
    /\ IF song.downloadUrl = <<>>
       THEN dl' = [dl EXCEPT !.pc = "done", !.settled = "rejected"]
       ELSE dl' = [dl EXCEPT !.pc = "fetch", !.link = downloadLink(song, quality)]
    /\ UNCHANGED <<song, quality, Others>>

\* Line 201: await fetch(downloadLink).
Fetch(ok) ==
    /\ dl.pc = "fetch"
    /\ dl' = [dl EXCEPT !.pc = IF ok THEN "blob" ELSE "catch",
                        !.fetched = Append(@, dl.link),
                        !.fetchOk = ok,
                        !.events = Append(@, "fetch")]
    /\ UNCHANGED <<song, quality, Others>>

\* Line 202: await response.blob().
Blob(ok) ==
    /\ dl.pc = "blob"
    /\ dl' = [dl EXCEPT !.pc = IF ok THEN "createObjectURL" ELSE "catch"]
    /\ UNCHANGED <<song, quality, Others>>

\* Line 203: URL.createObjectURL(blob).
CreateObjectURL(ok) ==
    /\ dl.pc = "createObjectURL"
    /\ dl' = IF ok
             THEN [dl EXCEPT !.pc = "anchor", !.objectUrl = "live",
                             !.events = Append(@, "createObjectURL")]
             ELSE [dl EXCEPT !.pc = "catch"]
    /\ UNCHANGED <<song, quality, Others>>

\* Lines 205-209: the anchor, its download name from decodeHtml.
CreateAnchor(ok) ==
    /\ dl.pc = "anchor"
    /\ dl' = IF ok
             THEN [dl EXCEPT !.pc = "append", !.anchor = "created"]
             ELSE [dl EXCEPT !.pc = "catch"]
    /\ UNCHANGED <<song, quality, Others>>

\* Line 211: document.body.appendChild(anchor).
AppendChild(ok) ==
    /\ dl.pc = "append"
    /\ dl' = IF ok
             THEN [dl EXCEPT !.pc = "click", !.anchor = "attached"]
             ELSE [dl EXCEPT !.pc = "catch"]
    /\ UNCHANGED <<song, quality, Others>>

\* Line 212: anchor.click(), the save under the anchor's download name.
Click(ok) ==
    /\ dl.pc = "click"
    /\ dl' = IF ok
             THEN [dl EXCEPT !.pc = "revoke", !.saved = Append(@, downloadName(song)),
                             !.events = Append(@, "click")]
             ELSE [dl EXCEPT !.pc = "catch"]
    /\ UNCHANGED <<song, quality, Others>>

\* Line 214: URL.revokeObjectURL(url).
RevokeObjectURL(ok) ==
    /\ dl.pc = "revoke"
    /\ dl' = IF ok
             THEN [dl EXCEPT !.pc = "remove", !.objectUrl = "revoked",
                             !.events = Append(@, "revokeObjectURL")]
             ELSE [dl EXCEPT !.pc = "catch"]
    /\ UNCHANGED <<song, quality, Others>>

\* Line 215: anchor.remove(); the try block ends and the call returns.
Remove(ok) ==
    /\ dl.pc = "remove"
    /\ dl' = IF ok
             THEN [dl EXCEPT !.pc = "done", !.settled = "fulfilled",
                             !.anchor = "removed",
                             !.events = Append(@, "remove")]
             ELSE [dl EXCEPT !.pc = "catch"]
    /\ UNCHANGED <<song, quality, Others>>

\* Lines 216-218: console.error, and the call returns.
Catch ==
    /\ dl.pc = "catch"
    /\ dl' = [dl EXCEPT !.pc = "done", !.settled = "fulfilled", !.logged = TRUE]
    /\ UNCHANGED <<song, quality, Others>>

-----------------------------------------------------------------------------
(* The specifications, one for each component.                             *)

InitTime ==
    /\ time \in 0..MaxTime
    /\ formatted = <<>>
    /\ SlugParked /\ LinkParked /\ ArtistsParked /\ HomeParked /\ DownloadParked

NextTime == FormatTime

SpecTime == InitTime /\ [][NextTime]_vars

InitSlug ==
    /\ url \in SlugInputs
    /\ cleared = <<>>
    /\ TimeParked /\ LinkParked /\ ArtistsParked /\ HomeParked /\ DownloadParked

NextSlug == ClearUrl

SpecSlug == InitSlug /\ [][NextSlug]_vars

InitLink ==
    /\ link \in LinkInputs
    /\ isLink = <<>>
    /\ TimeParked /\ SlugParked /\ ArtistsParked /\ HomeParked /\ DownloadParked

NextLink == IsJioSaavnLink

SpecLink == InitLink /\ [][NextLink]_vars

InitArtists ==
    /\ item \in Items
    /\ artistNames = <<>>
    /\ artistIds = <<>>
    /\ TimeParked /\ SlugParked /\ LinkParked /\ HomeParked /\ DownloadParked

NextArtists == GetArtists \/ GetArtistIds

SpecArtists == InitArtists /\ [][NextArtists]_vars

InitHome ==
    /\ HomeParked
    /\ TimeParked /\ SlugParked /\ LinkParked /\ ArtistsParked /\ DownloadParked

NextHome ==
    \E c \in CallIds :
        \/ GetHomeData(c)
        \/ \E v \in ApiValues : ApiFulfil(c, v)
        \/ ApiReject(c)
        \/ Resume(c)

SpecHome == InitHome /\ [][NextHome]_vars

InitDownload ==
    /\ song \in Songs
    /\ quality \in SongQuality
    /\ dl = DlStart
    /\ TimeParked /\ SlugParked /\ LinkParked /\ ArtistsParked /\ HomeParked

NextDownload ==
    \/ BuildLink
    \/ \E ok \in BOOLEAN :
        \/ Fetch(ok)
        \/ Blob(ok)
        \/ CreateObjectURL(ok)
        \/ CreateAnchor(ok)
        \/ AppendChild(ok)
        \/ Click(ok)
        \/ RevokeObjectURL(ok)
        \/ Remove(ok)
    \/ Catch

SpecDownload == InitDownload /\ [][NextDownload]_vars

-----------------------------------------------------------------------------
(* Properties of formatTime.                                               *)

\* The number a string of decimal digits writes; -1 when it is none.
RECURSIVE ParseDigits(_)
ParseDigits(s) ==
    IF s = <<>> \/ \E i \in 1..Len(s) : s[i] \notin Range(Digits) THEN -1
    ELSE LET last == (CHOOSE d \in 1..10 : Digits[d] = s[Len(s)]) - 1
         IN  IF Len(s) = 1 THEN last
             ELSE 10 * ParseDigits(SubSeq(s, 1, Len(s) - 1)) + last

\* C7: for every integer s >= 0, formatTime(s) is floor(s/60), written
\* without padding and not wrapped at 60, then ":", then s mod 60 written
\* with exactly two digits; 0 gives "0:00", 59 "0:59", 60 "1:00", 3661
\* "61:01".
C7_FormatTime ==
    formatted # <<>> =>
        LET out     == formatted[1]
            colon   == IndexOf(out, <<":">>, 1)
            minutes == SubSeq(out, 1, colon - 1)
            seconds == SubSeq(out, colon + 1, Len(out))
        IN  /\ colon > 1
            /\ ParseDigits(minutes) = time \div 60
            /\ Len(minutes) > 1 => minutes[1] # "0"
            /\ Len(seconds) = 2
            /\ ParseDigits(seconds) = time % 60
            /\ time = 0 => out = <<"0", ":", "0", "0">>
            /\ time = 59 => out = <<"0", ":", "5", "9">>
            /\ time = 60 => out = <<"1", ":", "0", "0">>
            /\ time = 3661 => out = <<"6", "1", ":", "0", "1">>

\* formatTime has run on 3661: more than 60 minutes, seconds below 10.
C7_Witness == time = 3661 /\ formatted = << <<"6", "1", ":", "0", "1">> >>

-----------------------------------------------------------------------------
(* Properties of clearUrl.                                                 *)

\* C5, as stated: "A  B" (two spaces) yields "a--b" and "Hello, World!"
\* yields "hello-world".
C5_TwoSpacesKeepDoubleHyphen ==
    cleared # <<>> =>
        /\ url = Spaced(2) => cleared[1] = <<"a", "-", "-", "b">>
        /\ url = HelloWorld
              => cleared[1] = <<"h","e","l","l","o","-","w","o","r","l","d">>

\* C5, amended: clearUrl lower-cases, strips what is neither a word
\* character nor whitespace, replaces each space with a hyphen and collapses
\* double hyphens in one pass: n spaces between two words leave
\* ceiling(n/2) hyphens, so two spaces give one hyphen ("A  B" yields
\* "a-b") and the output keeps a double hyphen exactly when the stripped
\* text has three consecutive spaces ("A   B" yields "a--b");
\* "Hello, World!" yields "hello-world".
C5_SinglePassCollapse ==
    cleared # <<>> =>
        LET out      == cleared[1]
            stripped == Filter(url, WordChars \cup SpaceChars)
        IN  /\ \A i \in 1..Len(out) :
                  out[i] \in Range(LowerCase) \cup Range(Digits)
                                \cup {"_", "-"} \cup (SpaceChars \ {" "})
            /\ \A n \in 1..MaxSpaces :
                  url = Spaced(n)
                      => out = <<"a">> \o Repeat("-", (n + 1) \div 2) \o <<"b">>
            /\ (IndexOf(out, <<"-", "-">>, 1) # 0)
                  <=> (IndexOf(stripped, <<" ", " ", " ">>, 1) # 0)
            /\ url = HelloWorld
                  => out = <<"h","e","l","l","o","-","w","o","r","l","d">>

\* clearUrl has run on words three spaces apart and kept a double hyphen.
C5_Witness == url = Spaced(3) /\ cleared = << <<"a", "-", "-", "b">> >>

-----------------------------------------------------------------------------
(* Properties of isJioSaavnLink.                                           *)

Protocols ==
    { <<>>, <<"h","t","t","p",":","/","/">>, <<"h","t","t","p","s",":","/","/">> }

\* The text before the path segment, as the specification reads it: an optional
\* protocol, an optional "www.", the host and a slash.
Heads ==
    { p \o w \o JioSaavnHost \o <<"/">> :
        p \in Protocols, w \in {<<>>, <<"w","w","w",".">>} }

\* The first n characters of u are a head whose "www" is followed by any
\* one character that is no line terminator.
HeadWithAnyAfterWww(u, n) ==
    \E p \in Protocols :
        LET k == Len(p)
        IN  /\ n = k + 4 + Len(JioSaavnHost) + 1
            /\ n <= Len(u)
            /\ SubSeq(u, 1, k) = p
            /\ SubSeq(u, k + 1, k + 3) = <<"w","w","w">>
            /\ u[k + 4] \notin LineTerminators
            /\ SubSeq(u, k + 5, n) = JioSaavnHost \o <<"/">>

\* After n characters come one of the five segments, a slash and a
\* non-empty remainder.
PathAfter(u, n) ==
    \E seg \in Segments :
        /\ HasAt(u, seg \o <<"/">>, n + 1)
        /\ n + Len(seg) + 1 < Len(u)

RemainderAfter(u, n) ==
    LET seg == CHOOSE g \in Segments : HasAt(u, g \o <<"/">>, n + 1)
    IN  SubSeq(u, n + Len(seg) + 2, Len(u))

\* C6, as stated: true exactly for an optional protocol, an optional
\* "www.", the host, a segment, a slash and a non-empty remainder, the
\* protocol and the host in any letter case.
C6_CaseInsensitive ==
    isLink # <<>> =>
        (isLink[1] <=>
            \E n \in 0..Len(link) :
                /\ ToLowerCase(SubSeq(link, 1, n)) \in Heads
                /\ PathAfter(link, n))

\* C6, amended: true exactly for an optional http:// or https://, an
\* optional "www" followed by any one character but a line terminator, the
\* host jiosaavn.com, one of the five segments, a slash and a non-empty
\* remainder without line terminators, all matched case-sensitively: an
\* upper-case or mixed-case protocol or host is rejected.
C6_CaseSensitive ==
    isLink # <<>> =>
        (isLink[1] <=>
            \E n \in 0..Len(link) :
                /\ SubSeq(link, 1, n) \in Heads \/ HeadWithAnyAfterWww(link, n)
                /\ PathAfter(link, n)
                /\ \A i \in 1..Len(RemainderAfter(link, n)) :
                      RemainderAfter(link, n)[i] \notin LineTerminators)

\* isJioSaavnLink has rejected a link whose protocol is in upper case.
C6_Witness ==
    /\ link = <<"H","T","T","P","S",":","/","/">> \o JioSaavnHost
                 \o <<"/","s","o","n","g","/","a","b","c">>
    /\ isLink = <<FALSE>>

-----------------------------------------------------------------------------
(* Properties of getArtists and getArtistIds.                              *)

\* pieces are the parts of str between its ", " separators.
IsSplitOf(pieces, str) ==
    /\ pieces # <<>>
    /\ Join(pieces, CommaSpace) = str
    /\ \A i \in 1..Len(pieces) : IndexOf(pieces[i], CommaSpace, 1) = 0

\* names are the names of an artist field: none for an absent field or an
\* empty string, the parts of a string, the name of each entry of a list.
IsNamesOf(names, field) ==
    CASE field.kind = "null" -> names = <<>>
      [] field.kind = "string" ->
            IF field.str = <<>> THEN names = <<>> ELSE IsSplitOf(names, field.str)
      [] field.kind = "list" ->
            /\ Len(names) = Len(field.list)
            /\ \A i \in 1..Len(names) : names[i] = field.list[i].name

\* The names of the three fields, artists first, then primaryArtists, then
\* featuredArtists.
NamesInOrder(it) ==
    LET Of(field) == IF getArtistsFromList(field) = <<>> THEN <<>>
                     ELSE getArtistsFromList(field)[1]
    IN  Of(it.artists) \o Of(it.primaryArtists) \o Of(it.featuredArtists)

FirstIndex(seq, x) == CHOOSE i \in 1..Len(seq) : seq[i] = x /\ \A j \in 1..(i - 1) : seq[j] # x

\* C4: getArtists is the names of artists, then primaryArtists, then
\* featuredArtists, each name once, at the place of its first occurrence,
\* joined by ", "; artists A,B with primaryArtists "B, C" and no featured
\* artists gives "A, B, C".
C4_GetArtists ==
    artistNames # <<>> =>
        LET all == NamesInOrder(item)
            out == IF artistNames[1] = <<>> THEN <<>>
                   ELSE Split(artistNames[1], CommaSpace)
        IN  /\ \A f \in {item.artists, item.primaryArtists, item.featuredArtists} :
                  IsNamesOf(IF getArtistsFromList(f) = <<>> THEN <<>>
                            ELSE getArtistsFromList(f)[1], f)
            /\ (\A i \in 1..Len(all) : all[i] # <<>>) =>
                  /\ Range(out) = Range(all)
                  /\ \A i, j \in 1..Len(out) : i < j =>
                        /\ out[i] # out[j]
                        /\ FirstIndex(all, out[i]) < FirstIndex(all, out[j])
            /\ item = ExampleItem
                  => artistNames[1] = <<"A", ",", " ", "B", ",", " ", "C">>

\* getArtists has run on an item whose fields repeat a name across fields,
\* one a list and one a string.
C4_Witness ==
    /\ item = ExampleItem
    /\ artistNames = << <<"A", ",", " ", "B", ",", " ", "C">> >>

\* The urls of a field given as a list; nothing for a string or no field.
UrlsOf(field) == IF field.kind = "list" THEN field.list ELSE <<>>

\* C8: getArtistIds is, without deduplication, the parts of primaryArtistsId
\* between ", ", then the url of each primaryArtists entry, then the url of
\* each featuredArtists entry; a field given as a string gives no ids, and
\* the artists field is never read.
C8_GetArtistIds ==
    artistIds # <<>> =>
        LET ids      == artistIds[1]
            primary  == UrlsOf(item.primaryArtists)
            featured == UrlsOf(item.featuredArtists)
            n        == Len(ids) - Len(primary) - Len(featured)
        IN  /\ n >= 1
            /\ IsSplitOf(SubSeq(ids, 1, n), item.primaryArtistsId)
            /\ \A i \in 1..Len(primary) : ids[n + i] = primary[i].url
            /\ \A i \in 1..Len(featured) :
                  ids[n + Len(primary) + i] = featured[i].url
            /\ \A a \in {NoItem.artists, ExampleItem.artists,
                          ExampleItem.primaryArtists} :
                  getArtistIds([item EXCEPT !.artists = a]) = ids

\* getArtistIds has run on an item with the same artist both as primary and
\* as featured entry (a repeated id) and a string of two ids.
C8_Witness ==
    /\ artistIds # <<>>
    /\ item.primaryArtistsId = <<"1", ",", " ", "2">>
    /\ item.primaryArtists.kind = "list"
    /\ item.featuredArtists.kind = "list"
    /\ item.artists.kind = "list"
    /\ Len(item.artists.list) > 0
    /\ \E i \in 1..Len(item.primaryArtists.list) :
          \E j \in 1..Len(item.featuredArtists.list) :
              item.primaryArtists.list[i] = item.featuredArtists.list[j]
    /\ Len(artistIds[1]) = 2 + Len(item.primaryArtists.list)
                             + Len(item.featuredArtists.list)

-----------------------------------------------------------------------------
(* Properties of getHomeData.                                              *)

\* r is the public view of payload p: trending is p's trending albums
\* followed by its trending songs, the other fields are p's.
IsReshapeOf(r, p) ==
    LET albums == p.trending.albums
        songs  == p.trending.songs
    IN  /\ Len(r.trending) = Len(albums) + Len(songs)
        /\ \A i \in 1..Len(albums) : r.trending[i] = albums[i]
        /\ \A i \in 1..Len(songs) : r.trending[Len(albums) + i] = songs[i]
        /\ r.albums = p.albums
        /\ r.playlists = p.playlists
        /\ r.charts = p.charts

\* No call was made while another was suspended.
Sequential == \A c \in CallIds : call[c].inFlight = {}

\* Every fetch so far resolved with a payload or is still pending.
AlwaysPresent ==
    \A c \in CallIds :
        /\ call[c].api # "rejected"
        /\ call[c].api = "fulfilled" => call[c].value # <<>>

Dispatches(c) == {i \in 1..Len(dispatched) : dispatched[i].by = c}

\* C1: in sequential calls from an empty store, the API returning a present
\* payload P, the first call fetches once and leaves homeData = P; every
\* later call fetches nothing, dispatches nothing and returns the same
\* reshaped value.
C1_SequentialCalls ==
    (Sequential /\ AlwaysPresent) =>
        /\ fetches <= 1
        /\ Len(dispatched) <= 1
        /\ \A c \in CallIds : call[c].pc = "returned" =>
              /\ fetches = 1
              /\ call[1].api = "fulfilled"
              /\ homeData = call[1].value
              /\ Len(dispatched) = 1
              /\ dispatched[1] = [by |-> 1, payload |-> call[1].value[1]]
              /\ call[c].result # <<>>
              /\ IsReshapeOf(call[c].result[1], call[1].value[1])
              /\ c > 1 => call[c].api = "none" /\ Dispatches(c) = {}

\* Three sequential calls have returned, the first after a fetch of Payload1.
C1_Witness ==
    /\ Sequential
    /\ \A c \in 1..3 : call[c].pc = "returned"
    /\ call[1].value = <<Payload1>>
    /\ call[3].api = "none"
    /\ fetches = 1

\* C2: when the fetch of a call fails, the call ends rejected, with no
\* value; it dispatches nothing and leaves homeData as it was; and a later
\* call that still finds the cache empty fetches again.
C2_FailurePropagates ==
    [][\A c \in CallIds :
          /\ (call[c].api = "rejected" /\ call[c].pc = "awaiting"
                  /\ call'[c].pc # "awaiting")
                => /\ call'[c].pc = "rejected"
                   /\ call'[c].result = <<>>
                   /\ homeData' = homeData
                   /\ dispatched' = dispatched
          /\ call'[c].api = "rejected"
                => \A i \in 1..Len(dispatched') : dispatched'[i].by # c
          /\ (call[c].pc = "idle" /\ call'[c].pc # "idle" /\ homeData = <<>>
                  /\ \E b \in CallIds : call[b].pc = "rejected")
                => /\ fetches' = fetches + 1
                   /\ call'[c].api = "pending"]_vars

\* The first call was rejected, the cache is still empty and the second
\* call has fetched again.
C2_Witness ==
    /\ call[1].pc = "rejected"
    /\ homeData = <<>>
    /\ call[2].api = "pending"
    /\ fetches = 2

\* C9: two calls that both start on an empty cache before either has
\* resumed both fetch and both dispatch their own payload; homeData is the
\* payload dispatched last, and each returns the view of its own payload.
C9_RedundantFetch ==
    /\ dispatched # <<>> => homeData = <<dispatched[Len(dispatched)].payload>>
    /\ \A c1, c2 \in CallIds :
          (/\ c1 \in call[c2].inFlight
           /\ call[c2].api # "none"
           /\ call[c1].pc = "returned" /\ call[c2].pc = "returned"
           /\ call[c1].value # <<>> /\ call[c2].value # <<>>)
          => /\ fetches >= 2
             /\ \A c \in {c1, c2} :
                   /\ call[c].api = "fulfilled"
                   /\ Cardinality(Dispatches(c)) = 1
                   /\ \A i \in Dispatches(c) :
                         dispatched[i].payload = call[c].value[1]
                   /\ IsReshapeOf(call[c].result[1], call[c].value[1])

\* Calls 1 and 2 raced with different payloads; call 1 dispatched last and
\* its payload is the one stored.
C9_Witness ==
    /\ 1 \in call[2].inFlight
    /\ call[1].pc = "returned" /\ call[2].pc = "returned"
    /\ dispatched = <<[by |-> 2, payload |-> Payload2], [by |-> 1, payload |-> Payload1]>>
    /\ homeData = <<Payload1>>
    /\ fetches = 2

-----------------------------------------------------------------------------
(* Properties of downloadSong.                                             *)

\* C3: whichever step fails, the building of the download link included,
\* the call logs the error and completes normally, never rejected, after at
\* most one fetch.
C3_AbsorbsEveryFailure ==
    dl.pc = "done" =>
        /\ dl.settled = "fulfilled"
        /\ Len(dl.fetched) <= 1
        /\ dl.anchor # "removed" => dl.logged

\* C10: in every run whose fetch succeeds the steps come in the order
\* fetch of the rewritten link, createObjectURL, click under the name
\* "<decoded name> <year>.mp3", release; and once the run has completed the
\* object URL is revoked and the anchor is out of the document.
C10_ReleasesTemporaries ==
    (dl.pc = "done" /\ dl.fetchOk) =>
        /\ dl.fetched = <<downloadLink(song, quality)>>
        /\ \E n \in 0..5 :
              dl.events = SubSeq(<<"fetch", "createObjectURL", "click",
                                   "revokeObjectURL", "remove">>, 1, n)
        /\ dl.objectUrl # "live"
        /\ dl.anchor # "attached"

=============================================================================
